---- MODULE Spec2Model ----
(***************************************************************************)
(* whatstk-webapp: a Streamlit page that stages an uploaded WhatsApp chat  *)
(* export in a temporary directory, parses it into a table of messages,    *)
(* drops system messages, and renders a CSV download plus charts.  Every   *)
(* user interaction re-runs the whole script (src/main.py) top to bottom.  *)
(***************************************************************************)
EXTENDS Integers, Sequences, FiniteSets, TLC

VARIABLES
    chat_export,    \* the chat export the visitor has at hand (input of the session)
    uploaded_file,  \* value of st.file_uploader: NoFile (None) or the uploaded file
    hformat,        \* side bar text input "Header format"
    encoding,       \* side bar text input "Encoding"
    count_mode,     \* radio "Counting mode"
    all_users,      \* radio "Aggregate all users" ("Yes" / "No")
    session,        \* "active" while the page is open, "ended" once it is left
    temp_dir,       \* directory held by the script's name temp_dir, or NoDir
    live_dirs,      \* temporary directories that exist on disk
    staged,         \* temporary directories that hold a copy of the chat
    out,            \* elements the last run of the script emitted, in order
    df,             \* the script's df at the end of the last run (None if unbound)
    csv,            \* data of the download button (None if there is no button)
    figs,           \* charts built for the first tab
    table_tab       \* table shown by the fourth tab (None if there is no tab)

vars == <<chat_export, uploaded_file, hformat, encoding, count_mode, all_users,
          session, temp_dir, live_dirs, staged, out, df, csv, figs, table_tab>>

\* df, csv and table_tab of a run that did not reach them: nothing, which for
\* csv differs from every export (an export has at least its header line).
None == <<>>
\* temp_dir once the script's names are gone.
NoDir == 0

(***************************************************************************)
(* Bounds of the model.                                                    *)
(***************************************************************************)
\* Longest chat (number of rows) a visitor uploads.
MaxRows == 4
\* Most temporary directories that exist at once.
MaxTemps == 2

(***************************************************************************)
(* Regular expressions: re.fullmatch over the constructs the patterns of   *)
(* sys_msgs use ('.', '\s', literal characters, and a trailing '?').       *)
(***************************************************************************)
sys_msgs ==
    << ".?Messages and calls are end-to-end encrypted. No one outside of this chat, not even WhatsApp, can read or listen to them.",
       ".?Group creator created this group",
       ".?\\screated this group",
       ".?You were added" >>

CharAt(s, i) == SubSeq(s, i, i)

Whitespace == {" ", "\t", "\n", "\r", "\f"}

\* Width in the pattern of the atom that starts at position i.
AtomWidth(pat, i) == IF CharAt(pat, i) = "\\" THEN 2 ELSE 1

\* Does the atom of pat at position i accept the single character c?
AtomAccepts(pat, i, c) ==
    IF CharAt(pat, i) = "."
    THEN c # "\n"
    ELSE IF CharAt(pat, i) = "\\"
         THEN IF CharAt(pat, i + 1) = "s" THEN c \in Whitespace
              ELSE c = CharAt(pat, i + 1)
         ELSE c = CharAt(pat, i)

\* Characters with a meaning of their own in the patterns of sys_msgs.
Special == {".", "\\", "?"}

\* Is pat[i] a plain character that has to be matched as it stands?
Plain(pat, i) ==
    /\ CharAt(pat, i) \notin Special
    /\ (i + 1 <= Len(pat) => CharAt(pat, i + 1) # "?")

\* Length of the run of plain characters of pat that starts at position i.
LiteralRun(pat, i) ==
    CHOOSE n \in 0..(Len(pat) - i + 1) :
        /\ \A k \in i..(i + n - 1) : Plain(pat, k)
        /\ (i + n <= Len(pat) => ~Plain(pat, i + n))

RECURSIVE MatchFrom(_, _, _, _)
\* Does pat from position i on match s from position j to its end?
MatchFrom(pat, i, s, j) ==
    IF i > Len(pat)
    THEN j > Len(s)
    ELSE LET n == LiteralRun(pat, i)
         IN  IF n > 0
             THEN /\ j + n - 1 <= Len(s)
                  /\ SubSeq(s, j, j + n - 1) = SubSeq(pat, i, i + n - 1)
                  /\ MatchFrom(pat, i + n, s, j + n)
             ELSE LET w    == AtomWidth(pat, i)
                      opt  == i + w <= Len(pat) /\ CharAt(pat, i + w) = "?"
                      rest == IF opt THEN i + w + 1 ELSE i + w
                      take == /\ j <= Len(s)
                              /\ AtomAccepts(pat, i, CharAt(s, j))
                              /\ MatchFrom(pat, rest, s, j + 1)
                  IN  IF opt THEN take \/ MatchFrom(pat, rest, s, j) ELSE take

\* Series.str.fullmatch for one element.
fullmatch(pat, s) == MatchFrom(pat, 1, s, 1)

(***************************************************************************)
(* The chats a visitor may upload.  A chat is a sequence of rows           *)
(* (username, message); a file is a chat together with what the external   *)
(* parser makes of its header.                                             *)
(***************************************************************************)
ENCRYPTION_NOTICE ==
    "Messages and calls are end-to-end encrypted. No one outside of this chat, not even WhatsApp, can read or listen to them."

\* Message bodies.  "+" stands for the invisible mark WhatsApp puts in front
\* of some notices (any single character other than a newline).
Messages ==
    { "hi",
      "X created this group",
      "You were added to the group",
      "+You were added",
      "Group creator created this group",
      ENCRYPTION_NOTICE }

\* The rows a chat is made of.
CandidateRows ==
    { [username |-> "X", message |-> "X created this group"],
      [username |-> "X", message |-> "hi"],
      [username |-> "A", message |-> "hi"],
      [username |-> "A", message |-> ENCRYPTION_NOTICE],
      [username |-> "B", message |-> "You were added to the group"],
      [username |-> "B", message |-> "+You were added"],
      [username |-> "G", message |-> "Group creator created this group"] }

Range(f) == {f[i] : i \in DOMAIN f}

Injective(f) == \A i, j \in DOMAIN f : f[i] = f[j] => i = j

\* Chats of at most n rows in which no row occurs twice.
RECURSIVE ChatsOfLen(_)
ChatsOfLen(n) ==
    IF n = 0 THEN {<<>>}
    ELSE {Append(c, r) : c \in ChatsOfLen(n - 1), r \in CandidateRows} 

Chats == {c \in UNION {ChatsOfLen(n) : n \in 0..MaxRows} : Injective(c)}

\* The header format the other kind of chat export is written in.
ODD_HFORMAT == "%d.%m.%y %H:%M - %name:"

\* Header kinds: "std" is detected by the parser on its own, "odd" needs the
\* header format spelled out, "none" is not a chat at all.  utf8 tells whether
\* the first kilobyte of the file decodes as UTF-8.
Files ==
    {[header |-> "std", utf8 |-> TRUE, rows |-> c] : c \in Chats}
    \cup {[header |-> "odd", utf8 |-> TRUE, rows |-> c] : c \in {d \in Chats : Len(d) <= 1}}
    \cup {[header |-> "none", utf8 |-> u, rows |-> <<>>] : u \in BOOLEAN}

\* uploaded_file is None: nothing is uploaded.
NoFile == [header |-> "no file", utf8 |-> TRUE, rows |-> <<>>]

HFormats == {"", ODD_HFORMAT}
Encodings == {"utf-8", "utf-9"}

(***************************************************************************)
(* Parse: the call of whatstk's df_from_whatsapp.  The parser is external; *)
(* what matters here is whether it raises and, if not, the table it gives: *)
(* one row per message, labelled 0, 1, 2, ... in the order of the chat.    *)
(***************************************************************************)
\* The parser raises on an unknown codec, on a file that is no chat, on a
\* header it cannot detect, and on a header format that does not fit the file.
ParserRaises(file, hf, enc) ==
    \/ enc # "utf-8"
    \/ file.header = "none"
    \/ file.header = "odd" /\ hf # ODD_HFORMAT
    \/ file.header = "std" /\ hf # ""

\* The table the parser returns when it does not raise.
df_from_whatsapp(file, hf, enc) ==
         [i \in 1..Len(file.rows) |->
            [index    |-> i - 1,
             username |-> file.rows[i].username,
             message  |-> file.rows[i].message]]

(***************************************************************************)
(* System-message filter.                                                  *)
(***************************************************************************)
\* df['message'].str.fullmatch(sys_msg), per message body.
MatchTable ==
    [k \in 1..Len(sys_msgs) |-> [m \in Messages |-> fullmatch(sys_msgs[k], m)]]

\* mask = df['message'].str.fullmatch(sys_msgs[k]), for one row.
mask(row, k) == MatchTable[k][row.message]

\* df = df[~mask] for the pattern sys_msgs[k].
DropMasked(d, k) == SelectSeq(d, LAMBDA row : ~mask(row, k))

RECURSIVE PatternLoopShort(_, _)
\* The first loop, were it to stop one pattern early.
PatternLoopShort(d, k) ==
    IF k >= Len(sys_msgs) THEN d
    ELSE PatternLoopShort(DropMasked(d, k), k + 1)

RECURSIVE PatternLoop(_, _)
\* The first loop over sys_msgs, from pattern k on.
PatternLoop(d, k) ==
    IF k > Len(sys_msgs) THEN d
    ELSE PatternLoop(DropMasked(d, k), k + 1)

\* df["username"].nunique()
nunique(d) == Cardinality({d[i].username : i \in DOMAIN d})

\* list(df.loc[mask, "username"]) for the pattern sys_msgs[k].
MaskedUsernames(d, k) ==
    LET hit == SelectSeq(d, LAMBDA row : mask(row, k))
    IN  [i \in 1..Len(hit) |-> hit[i].username]

RECURSIVE UsernameLoop(_, _)
\* The second loop over sys_msgs: username_system, from pattern k on.
UsernameLoop(d, k) ==
    IF k > Len(sys_msgs) THEN <<>>
    ELSE MaskedUsernames(d, k) \o UsernameLoop(d, k + 1)

\* username_system, were the mask negated when the usernames are read.
username_system_unmasked(d) ==
    LET miss == SelectSeq(d, LAMBDA row : \E k \in 1..Len(sys_msgs) : ~mask(row, k))
    IN  [i \in 1..Len(miss) |-> miss[i].username]

\* username_system as the script collects it from the table it holds in df.
username_system(d) == UsernameLoop(d, 1)

\* df = df[~df["username"].isin(set(username_system))]
DropUsers(d, users) == SelectSeq(d, LAMBDA row : row.username \notin users)

\* The guarded second pass.
SecondPass(d) ==
    IF nunique(d) > 2
    THEN DropUsers(d, Range(username_system(d)))
    ELSE d

Reverse(d) == [i \in 1..Len(d) |-> d[Len(d) + 1 - i]]

\* Both passes, were the result handed on newest row first.
FilterChatReversed(table) == Reverse(SecondPass(PatternLoop(table, 1)))

\* Both passes, were the usernames collected from the parsed table and the
\* guard on the number of usernames left out.
FilterChatEager(table) ==
    DropUsers(PatternLoop(table, 1), Range(username_system(table)))

\* Both passes, were the filter applied only when the charts are per user.
FilterChatPerUser(table) ==
    IF all_users = "Yes" THEN table ELSE SecondPass(PatternLoop(table, 1))

\* Both passes, from the parsed table to the table that is exported.
FilterChat(table) == SecondPass(PatternLoop(table, 1))

(***************************************************************************)
(* Export and charts.                                                      *)
(***************************************************************************)
\* df.to_csv(): a header line, then one line per row led by its index label.
to_csv(d) ==
    <<  <<"", "username", "message">>  >>
    \o [i \in 1..Len(d) |-> <<d[i].index, d[i].username, d[i].message>>]

Default == "default"

\* fb.user_interventions_count_linechart(...) with the arguments the script passes.
LineChart(cumulative, date_mode, title, xlabel, msg_length, au) ==
    [cumulative |-> cumulative, date_mode |-> date_mode, title |-> title,
     xlabel |-> xlabel, msg_length |-> msg_length, all_users |-> au]

\* figs of the first tab, were the per-hour chart of the characters branch
\* left counting messages.
VolumeFigsMixed(cm, au_radio) ==
    LET au == IF au_radio = "Yes" THEN TRUE ELSE FALSE
    IN  IF cm = "Number of messages sent"
        THEN << LineChart(TRUE, Default, "Number of messages sent (cumulative)",
                          Default, FALSE, au),
                LineChart(Default, "hour", "Number of messages sent (per hour in a day)",
                          "Hour", FALSE, au) >>
        ELSE << LineChart(TRUE, Default, "Number of characters sent (cumulative)",
                          Default, TRUE, au),
                LineChart(Default, "hour", "Number of characters sent (per hour in a day)",
                          "Hour", FALSE, au) >>

\* figs of the first tab, for the two radio values.
VolumeFigs(cm, au_radio) ==
    LET au == IF au_radio = "Yes" THEN TRUE ELSE FALSE
    IN  IF cm = "Number of messages sent"
        THEN << LineChart(TRUE, Default, "Number of messages sent (cumulative)",
                          Default, FALSE, au),
                LineChart(Default, "hour", "Number of messages sent (per hour in a day)",
                          "Hour", FALSE, au) >>
        ELSE << LineChart(TRUE, Default, "Number of characters sent (cumulative)",
                          Default, TRUE, au),
                LineChart(Default, "hour", "Number of characters sent (per hour in a day)",
                          "Hour", TRUE, au) >>

CountModes == {"Number of messages sent", "Number of characters sent"}
AllUsersOptions == {"Yes", "No"}
CountModeDefault == "Number of messages sent"
AllUsersDefault == "No"

(***************************************************************************)
(* One run of the script, as a function of what it reads.                  *)
(***************************************************************************)
PageTop == <<"title", "powered_by", "hformat_input", "encoding_input", "file_uploader">>
PageBottom == <<"divider", "privacy", "coffee_button">>

\* What follows st.error, were st.stop() missing: the script goes on below
\* the if block.
AfterErrorNoStop(file) == IF file.utf8 THEN PageBottom ELSE <<"exception">>

\* What follows st.error in the except branch: st.stop() when the sample of
\* the file prints, the decoding error otherwise; either way the run is over.
AfterError(file) == IF file.utf8 THEN <<>> ELSE <<"exception">>

\* Elements of a run whose parse succeeded, from the download button on.
ResultElements(f) ==
    <<"download_button", "header", "tabs", "count_mode_radio", "all_users_radio">>
    \o [i \in 1..Len(f) |-> "line_chart"]
    \o <<"boxplot", "heatmap", "dataframe">>

Run(file, hf, enc, cm, au) ==
    IF file = NoFile
    THEN [out |-> PageTop \o PageBottom, staged |-> FALSE,
          df |-> None, csv |-> None, figs |-> <<>>, table_tab |-> None]
    ELSE LET parsed == df_from_whatsapp(file, hf, enc)
         IN  IF ParserRaises(file, hf, enc)
             THEN [out |-> PageTop \o <<"error">> \o AfterError(file), staged |-> TRUE,
                   df |-> None, csv |-> None, figs |-> <<>>, table_tab |-> None]
             ELSE LET d == FilterChat(parsed)
                      f == VolumeFigs(cm, au)
                  IN  [out |-> PageTop \o ResultElements(f) \o PageBottom,
                       staged |-> TRUE,
                       df |-> d, csv |-> to_csv(d), figs |-> f, table_tab |-> d]

(***************************************************************************)
(* Actions.  Every interaction makes Streamlit run the script again, from  *)
(* its first line to its last (or to st.stop()), in a fresh namespace.     *)
(***************************************************************************)
TempIds == 1..MaxTemps

\* tempfile.TemporaryDirectory() makes a directory that does not exist yet; the
\* name is arbitrary, so the model takes the first free one (none free: beyond
\* the TempIds).
FreshDir(existing) ==
    IF TempIds \ existing = {} THEN MaxTemps + 1
    ELSE CHOOSE d \in TempIds \ existing : \A e \in TempIds \ existing : d <= e

\* The radios exist only in a run that reaches the first tab; a radio that a
\* run does not create starts again from its default.
ShowsRadios(o) == "count_mode_radio" \in Range(o)

Rerun(file, hf, enc, cm, au) ==
    \E r \in {Run(file, hf, enc, cm, au)} :
        /\ session = "active"
        /\ \E d \in {FreshDir(live_dirs)} :
              /\ d \in TempIds
              /\ temp_dir' = d
              /\ live_dirs' = live_dirs \cup {d}
              /\ staged' = IF r.staged THEN staged \cup {d} ELSE staged
        /\ out' = r.out
        /\ df' = r.df
        /\ csv' = r.csv
        /\ figs' = r.figs
        /\ table_tab' = r.table_tab
        /\ count_mode' = IF ShowsRadios(r.out) THEN cm ELSE CountModeDefault
        /\ all_users' = IF ShowsRadios(r.out) THEN au ELSE AllUsersDefault
        /\ uploaded_file' = file
        /\ hformat' = hf
        /\ encoding' = enc
        /\ UNCHANGED <<chat_export, session>>

\* The visitor drops the chat export into the uploader.
Upload ==
    /\ uploaded_file = NoFile
    /\ Rerun(chat_export, hformat, encoding, count_mode, all_users)

\* The visitor edits "Header format" in the side bar.
SetHformat ==
    \E hf \in HFormats \ {hformat} :
        Rerun(uploaded_file, hf, encoding, count_mode, all_users)

\* The visitor edits "Encoding" in the side bar.
SetEncoding ==
    \E enc \in Encodings \ {encoding} :
        Rerun(uploaded_file, hformat, enc, count_mode, all_users)

\* The visitor picks the other counting mode.
SetCountMode ==
    /\ ShowsRadios(out)
    /\ \E cm \in CountModes \ {count_mode} :
          Rerun(uploaded_file, hformat, encoding, cm, all_users)

\* The visitor picks the other aggregation.
SetAllUsers ==
    /\ ShowsRadios(out)
    /\ \E au \in AllUsersOptions \ {all_users} :
          Rerun(uploaded_file, hformat, encoding, count_mode, au)

\* The visitor leaves the page: the session's widget values and uploaded file
\* are discarded with it, and the last run's names are dropped.
EndSession ==
    /\ session = "active"
    /\ session' = "ended"
    /\ temp_dir' = NoDir
    /\ uploaded_file' = NoFile
    /\ hformat' = ""
    /\ encoding' = "utf-8"
    /\ count_mode' = CountModeDefault
    /\ all_users' = AllUsersDefault
    /\ out' = <<>>
    /\ df' = None
    /\ csv' = None
    /\ figs' = <<>>
    /\ table_tab' = None
    /\ UNCHANGED <<chat_export, live_dirs, staged>>

\* Cleanup, were only an empty directory removed.
CleanupEmptyOnly(d) ==
    /\ d \in live_dirs \ {temp_dir}
    /\ d \notin staged
    /\ live_dirs' = live_dirs \ {d}
    /\ staged' = staged \ {d}
    /\ UNCHANGED <<chat_export, uploaded_file, hformat, encoding, count_mode,
                   all_users, session, temp_dir, out, df, csv, figs, table_tab>>

\* A TemporaryDirectory object that no name refers to any more is finalized:
\* the directory and the chat in it are removed.
Cleanup(d) ==
    /\ d \in live_dirs \ {temp_dir}
    /\ live_dirs' = live_dirs \ {d}
    /\ staged' = staged \ {d}
    /\ UNCHANGED <<chat_export, uploaded_file, hformat, encoding, count_mode,
                   all_users, session, temp_dir, out, df, csv, figs, table_tab>>

\* The page as first loaded: one run of the script with nothing uploaded.
Init ==
    /\ chat_export \in Files
    /\ uploaded_file = NoFile
    /\ hformat = ""
    /\ encoding = "utf-8"
    /\ count_mode = CountModeDefault
    /\ all_users = AllUsersDefault
    /\ session = "active"
    /\ temp_dir = 1
    /\ live_dirs = {1}
    /\ staged = {}
    /\ out = Run(NoFile, "", "utf-8", CountModeDefault, AllUsersDefault).out
    /\ df = None
    /\ csv = None
    /\ figs = <<>>
    /\ table_tab = None

Next ==
    \/ Upload
    \/ SetHformat
    \/ SetEncoding
    \/ SetCountMode
    \/ SetAllUsers
    \/ EndSession
    \/ \E d \in TempIds : Cleanup(d)

Spec == Init /\ [][Next]_vars

(***************************************************************************)
(* The session of a visitor whose file is one of a few, for the properties *)
(* of the temporary directories.  A TemporaryDirectory is finalized once   *)
(* nothing refers to it, so each directory's cleanup is weakly fair.       *)
(***************************************************************************)
StagedFiles ==
    {f \in Files : f.header # "std" \/ f.rows \in {<<>>, <<[username |-> "A", message |-> "hi"]>>}}

InitStaged == Init /\ chat_export \in StagedFiles

FairSpec ==
    InitStaged /\ [][Next]_vars /\ \A d \in TempIds : WF_vars(Cleanup(d))

(***************************************************************************)
(* Vocabulary of the properties.                                           *)
(***************************************************************************)
\* The last run parsed the upload and got as far as the table tab.
Shown == "dataframe" \in Range(out)

\* The last run reported a parse failure.
ErrorShown == "error" \in Range(out)

\* ChatTable: what the parser returned to the last run.
ChatTable == df_from_whatsapp(uploaded_file, hformat, encoding)

\* The row's message fully matches one of the system-message patterns.
IsSystemRow(row) == \E k \in 1..Len(sys_msgs) : MatchTable[k][row.message]

\* A table without its system rows.
WithoutSystemRows(t) == SelectSeq(t, LAMBDA row : ~IsSystemRow(row))

\* Usernames that have a system row in the table.
SystemUsernames(t) == {t[i].username : i \in {j \in DOMAIN t : IsSystemRow(t[j])}}

Usernames(t) == {t[i].username : i \in DOMAIN t}

(***************************************************************************)
(* Properties.                                                             *)
(***************************************************************************)
\* C1: after a successful parse, no row whose message fully matches a
\* system-message pattern is in the filtered table, nor in the CSV or the
\* table tab made from it.
C1_NoSystemRowLeft ==
    Shown =>
        /\ \A i \in DOMAIN df : ~IsSystemRow(df[i])
        /\ table_tab = df
        /\ csv = to_csv(df)

\* C1 witness: a chat with a system row and an ordinary row was filtered.
C1_Witness ==
    /\ Shown
    /\ \E i \in DOMAIN ChatTable : IsSystemRow(ChatTable[i])
    /\ df # <<>>

\* C2: the filtered table is a subsequence of the parsed table: every row is
\* the parsed row with the same label, and labels strictly increase.
C2_Subsequence ==
    Shown =>
        /\ \A i \in DOMAIN df :
              /\ df[i].index + 1 \in DOMAIN ChatTable
              /\ df[i] = ChatTable[df[i].index + 1]
        /\ \A i, j \in DOMAIN df : i < j => df[i].index < df[j].index

\* C2 witness: some rows were removed and at least two were kept.
C2_Witness ==
    /\ Shown
    /\ Len(df) >= 2
    /\ Len(df) < Len(ChatTable)

\* C3 as claimed: with more than two usernames in the parsed table, a username
\* that has a system row has no row left in the filtered table.
C3_SystemUsernameGone ==
    (Shown /\ nunique(ChatTable) > 2) =>
        \A u \in SystemUsernames(ChatTable) : u \notin Usernames(df)

\* C4: with at most two usernames in the parsed table, the filtered table is
\* the parsed table without its system rows, and every username that has an
\* ordinary row is still there.
C4_TwoUsersPatternOnly ==
    (Shown /\ nunique(ChatTable) <= 2) =>
        /\ df = WithoutSystemRows(ChatTable)
        /\ \A i \in DOMAIN ChatTable :
              ~IsSystemRow(ChatTable[i]) => ChatTable[i].username \in Usernames(df)

\* C4 witness: two participants, one of them with a system row and an
\* ordinary row.
C4_Witness ==
    /\ Shown
    /\ nunique(ChatTable) = 2
    /\ \E u \in SystemUsernames(ChatTable) : u \in Usernames(df)

\* C5: when a file is uploaded and the parser raises, the error is shown and
\* the run ends there: no filter, no download button, tabs, charts or table,
\* and nothing of the rest of the page.
C5_ParseFailureHalts ==
    (session = "active" /\ uploaded_file # NoFile
        /\ ParserRaises(uploaded_file, hformat, encoding)) =>
        /\ ErrorShown
        /\ Range(out) \cap (Range(ResultElements(<<1, 2>>)) \cup Range(PageBottom)) = {}
        /\ df = None
        /\ csv = None
        /\ table_tab = None
        /\ figs = <<>>

\* C5 witness: an uploaded file the parser rejected.
C5_Witness ==
    /\ uploaded_file # NoFile
    /\ ErrorShown
    /\ uploaded_file.rows # <<>>

\* C6: a re-run that leaves the file, the header format and the encoding as
\* they were leaves the filtered table, the CSV and the table tab as they were.
C6_TogglesKeepTable ==
    [][ (/\ uploaded_file' = uploaded_file
         /\ hformat' = hformat
         /\ encoding' = encoding
         /\ Shown /\ Shown')
        => (df' = df /\ csv' = csv /\ table_tab' = table_tab) ]_vars

\* C6 witness: both toggles were moved off their defaults over a chat that
\* the filter shortened.
C6_Witness ==
    /\ Shown
    /\ count_mode # CountModeDefault
    /\ all_users # AllUsersDefault
    /\ Len(df) < Len(ChatTable)

C8_CollectsFromOriginal ==
    Shown =>
        df = IF nunique(WithoutSystemRows(ChatTable)) > 2
             THEN DropUsers(WithoutSystemRows(ChatTable), SystemUsernames(ChatTable))
             ELSE WithoutSystemRows(ChatTable)

\* C9: the first tab holds exactly two line charts, the first cumulative and
\* the second per hour; both count characters iff the counting mode says so,
\* and both aggregate all users iff the aggregation radio is "Yes".
C9_VolumeCharts ==
    Shown =>
        /\ Len(figs) = 2
        /\ Cardinality({i \in DOMAIN out : out[i] = "line_chart"}) = 2
        /\ figs[1].cumulative = TRUE
        /\ figs[2].date_mode = "hour"
        /\ \A i \in DOMAIN figs :
              /\ figs[i].msg_length = (count_mode = "Number of characters sent")
              /\ figs[i].all_users = (all_users = "Yes")

\* C9 witness: characters, aggregated.
C9_Witness ==
    /\ Shown
    /\ count_mode = "Number of characters sent"
    /\ all_users = "Yes"

\* C10: the usernames of the second pass are collected from the table the
\* pattern pass has filtered, so none is collected and the filtered table is
\* the parsed table without its system rows, however many usernames it has.
C10_SecondPassRemovesNothing ==
    Shown =>
        /\ username_system(PatternLoop(ChatTable, 1)) = <<>>
        /\ df = WithoutSystemRows(ChatTable)

\* C10 witness: more than two usernames remain and one of them has a system
\* row in the parsed table.
C10_Witness ==
    /\ Shown
    /\ nunique(df) > 2
    /\ \E u \in SystemUsernames(ChatTable) : u \in Usernames(df)

====
